---- MODULE Spec2Model ----
(***************************************************************************)
(* Model of server/dblib.py: the database facade of fog_server.            *)
(*                                                                         *)
(* Caller threads build a statement, put (sql, params, event) on _queue    *)
(* and wait on the event; the single thread running _execute takes the     *)
(* entries, executes them on the singleton connection, stores the rows of  *)
(* a select in _rows[event], sets the event and commits a write when the   *)
(* queue is empty.                                                         *)
(*                                                                         *)
(* A statement is a record with the parts of the SQL text the facade       *)
(* formats (verb, table, columns, where terms, the "oid not in" subquery,  *)
(* order by, limit) together with its bound parameters.  A nullable        *)
(* column value is a sequence: <<>> is NULL / None, <<v>> is the value v.  *)
(***************************************************************************)
EXTENDS Integers, Sequences, FiniteSets, TLC

(***************************************************************************)
(* Bounds of the model.                                                    *)
(***************************************************************************)
NumCallers == 2
MaxCalls == 2
MaxRows == 4
MaxPage == 3
MaxPageSize == 2
MaxFilters == 2

(* the caller threads *)
Callers == 1..NumCallers

(* Thread(target=_execute).start(): the threads that run _execute. *)
TwoWorkers == {"worker", "worker2"}
Workers == {"worker"}

(***************************************************************************)
(* Values.                                                                 *)
(***************************************************************************)
NULL == <<>>
Some(v) == <<v>>
NoLimit == <<>>
NoSub == <<>>

(* str(val) of a filter value, and the store's reading of a column value   *)
(* for the comparison with a text parameter.                               *)
Str(v) == <<"str", v>>

(* _tables: the mapped classes. *)
_tables == [CoS |-> "cos", Request |-> "requests", Attempt |-> "attempts",
            Response |-> "responses", Path |-> "paths"]

(* _get_columns(cls): CoS keeps one threshold beside max_response_time,    *)
(* Request keeps its key, its CoS reference and its path, Attempt its key  *)
(* and its path, Response its key and its timestamp, Path its key, its     *)
(* text columns and its timestamp.                                         *)
_get_columns(cls) ==
    CASE cls = "CoS" -> <<"id", "max_response_time", "min_cpu">>
      [] cls = "Request" -> <<"id", "src", "cos_id", "path">>
      [] cls = "Attempt" -> <<"req_id", "src", "attempt_no", "path">>
      [] cls = "Response" -> <<"req_id", "src", "attempt_no", "host", "timestamp">>
      [] cls = "Path" -> <<"req_id", "src", "attempt_no", "host", "path",
                           "bandwidths", "delays", "jitters", "loss_rates",
                           "timestamp">>
      [] OTHER -> <<>>

(* _get_where_str: one term per keyword filter, values as str(val). *)
_get_where_str(kwargs) ==
    [i \in 1..Len(kwargs) |->
        [col |-> kwargs[i][1], cond |-> kwargs[i][2], val |-> Str(kwargs[i][3])]]

(* _get_orders_str(orders): None or () give no clause. *)
_get_orders_str(orders) == orders

(***************************************************************************)
(* The store: what the connection does with a statement.                   *)
(***************************************************************************)
Tables == {"cos", "requests", "attempts", "responses", "paths"}

(* The key columns of the table definitions (definitions.sql); the key of  *)
(* paths is not unique.                                                    *)
KeyCols(table) ==
    CASE table = "cos" -> {"id"}
      [] table = "requests" -> {"id", "src"}
      [] table = "attempts" -> {"req_id", "src", "attempt_no"}
      [] table = "responses" -> {"req_id", "src", "attempt_no", "host"}
      [] table = "paths" -> {"req_id", "src", "attempt_no", "host"}

SetMax(S) == CHOOSE x \in S : \A y \in S : y <= x

(* a row satisfies the where terms (joined by and) *)
Matches(row, where) ==
    \A i \in 1..Len(where) :
        /\ where[i].col \in DOMAIN row
        /\ where[i].cond = "="
        /\ Str(row[where[i].col]) = where[i].val

(* order by the columns of order, ties in rowid order *)
RECURSIVE Before(_, _, _)
Before(r1, r2, order) ==
    IF order = <<>> THEN r1.oid < r2.oid
    ELSE IF r1[Head(order)] # r2[Head(order)]
         THEN r1[Head(order)] < r2[Head(order)]
         ELSE Before(r1, r2, Tail(order))

RECURSIVE Sorted(_, _)
Sorted(S, order) ==
    IF S = {} THEN <<>>
    ELSE LET first == CHOOSE r \in S : \A q \in S \ {r} : Before(r, q, order)
         IN  <<first>> \o Sorted(S \ {first}, order)

Limit(seq, limit) ==
    IF limit = NoLimit \/ limit[1] < 0 \/ limit[1] >= Len(seq) THEN seq
    ELSE SubSeq(seq, 1, limit[1])

RowOids(seq) == {seq[i].oid : i \in 1..Len(seq)}

(* select ... from table [where ...] [and oid not in (select oid from      *)
(* table [order by ...] limit n)] [order by ...] [limit n]                 *)
EvalSelect(rows, stmt) ==
    LET excluded == IF stmt.notin = NoSub THEN {}
                    ELSE RowOids(Limit(Sorted(rows, stmt.notin[1].order),
                                       Some(stmt.notin[1].limit)))
        kept == {r \in rows : Matches(r, stmt.where) /\ r.oid \notin excluded}
    IN  Limit(Sorted(kept, stmt.order), stmt.limit)

(***************************************************************************)
(* Entity codec.  A Python optional is <<>> (None) or <<v>>.               *)
(***************************************************************************)
None == <<>>

(* truth value of an optional list / an optional number, as "if obj.path:" *)
TruthyList(x) == x # None /\ x[1] # <<>>
TruthyNum(x) == x # None /\ x[1] # 0

(* datetime.fromtimestamp(t) and datetime.timestamp(d) *)
fromtimestamp(t) == <<"datetime", t>>
timestamp(d) == d[2]

(* eval(text) of the text str(list) wrote; eval(None) raises TypeError *)
EvalRaises(text) == text = NULL
Eval(text) == text[1][2]

(* the getters of model.CoS: the threshold, None when unset *)
get_max_response_time(obj) == obj.max_response_time
get_min_cpu(obj) == obj.min_cpu

AdaptOptList(x) == IF TruthyList(x) THEN Some(Str(x[1])) ELSE NULL

(* _adapt(obj): the row tuple, by column *)
_adapt(obj) ==
    CASE obj.cls = "CoS" ->
            [id |-> obj.id,
             max_response_time |-> get_max_response_time(obj),
             min_cpu |-> get_min_cpu(obj)]
      [] obj.cls = "Request" ->
            [id |-> obj.id, src |-> obj.src, cos_id |-> obj.cos.id,
             path |-> AdaptOptList(obj.path)]
      [] obj.cls = "Attempt" ->
            [req_id |-> obj.req_id, src |-> obj.src,
             attempt_no |-> obj.attempt_no, path |-> AdaptOptList(obj.path)]
      [] obj.cls = "Response" ->
            [req_id |-> obj.req_id, src |-> obj.src,
             attempt_no |-> obj.attempt_no, host |-> obj.host,
             timestamp |-> fromtimestamp(obj.timestamp)]
      [] obj.cls = "Path" ->
            [req_id |-> obj.req_id, src |-> obj.src,
             attempt_no |-> obj.attempt_no, host |-> obj.host,
             path |-> AdaptOptList(obj.path),
             bandwidths |-> AdaptOptList(obj.bandwidths),
             delays |-> AdaptOptList(obj.delays),
             jitters |-> AdaptOptList(obj.jitters),
             loss_rates |-> AdaptOptList(obj.loss_rates),
             timestamp |-> fromtimestamp(obj.timestamp)]

(* _convert of one CoS row: a threshold is set only when the column is not *)
(* None                                                                    *)
ConvertCoS(item) ==
    [cls |-> "CoS", id |-> item.id,
     max_response_time |->
        IF item.max_response_time # NULL THEN item.max_response_time ELSE None,
     min_cpu |-> IF item.min_cpu # NULL THEN item.min_cpu ELSE None]

(* _convert of one Path row: eval of every text column, which raises on a  *)
(* None column; <<"ok", obj>> or <<"TypeError">>                           *)
ConvertPath(item) ==
    IF \/ EvalRaises(item.path) \/ EvalRaises(item.bandwidths)
       \/ EvalRaises(item.delays) \/ EvalRaises(item.jitters)
       \/ EvalRaises(item.loss_rates)
    THEN <<"TypeError">>
    ELSE <<"ok", [cls |-> "Path", req_id |-> item.req_id, src |-> item.src,
                  attempt_no |-> item.attempt_no, host |-> item.host,
                  path |-> Some(Eval(item.path)),
                  bandwidths |-> Some(Eval(item.bandwidths)),
                  delays |-> Some(Eval(item.delays)),
                  jitters |-> Some(Eval(item.jitters)),
                  loss_rates |-> Some(Eval(item.loss_rates)),
                  timestamp |-> timestamp(item.timestamp)]>>

(***************************************************************************)
(* The statements the facade builds.                                       *)
(***************************************************************************)
Stmt(op, table, params, where, notin, order, limit) ==
    [op |-> op, table |-> table, params |-> params, where |-> where,
     notin |-> notin, order |-> order, limit |-> limit]

(* _tables[obj.__class__.__name__] raises KeyError for an unmapped class *)
KeyError(cls) == cls \notin DOMAIN _tables

(* getattr(obj, _id_field) raises AttributeError *)
AttributeError(obj, _id) == \E i \in 1..Len(_id) : _id[i] \notin DOMAIN obj

InsertStmt(obj) ==
    Stmt("insert", _tables[obj.cls], _adapt(obj), <<>>, NoSub, <<>>, NoLimit)

UpdateStmt(obj, _id) ==
    Stmt("update", _tables[obj.cls], _adapt(obj),
         _get_where_str([i \in 1..Len(_id) |-> <<_id[i], "=", obj[_id[i]]>>]),
         NoSub, <<>>, NoLimit)

SelectStmt(cls, orders, kwargs) ==
    Stmt("select", _tables[cls], <<>>, _get_where_str(kwargs), NoSub,
         _get_orders_str(orders), NoLimit)

(* the rows the subquery of select_page excludes: limit (page-1)*page_size *)
PageOffsetOffByOne(page, page_size) == page * page_size
PageOffset(page, page_size) == (page - 1) * page_size

SelectPageStmt(cls, page, page_size, orders, kwargs) ==
    Stmt("select", _tables[cls], <<>>, _get_where_str(kwargs),
         <<[order |-> _get_orders_str(orders),
            limit |-> PageOffset(page, page_size)]>>,
         _get_orders_str(orders), Some(page_size))

(* sql[0:6] == 'select' *)
IsSelect(sql) == sql.op = "select"

(***************************************************************************)
(* Execution of a statement by the connection.                             *)
(***************************************************************************)
KeyOf(row, table) == [c \in KeyCols(table) |-> row[c]]

(* the constraints of the table definitions: unique keys, and a request's  *)
(* cos_id names a stored CoS                                               *)
Violates(db, table, rows) ==
    \/ /\ table # "paths"
       /\ \E r1, r2 \in rows : r1 # r2 /\ KeyOf(r1, table) = KeyOf(r2, table)
    \/ /\ table = "requests"
       /\ \E r \in rows : \A c \in db["cos"] : c.id # r.cos_id

NextOid(rows) == IF rows = {} THEN 1 ELSE SetMax({r.oid : r \in rows}) + 1

WithOid(params, oid) ==
    [c \in DOMAIN params \cup {"oid"} |-> IF c = "oid" THEN oid ELSE params[c]]

(* the table after the write, were it accepted *)
Written(rows, stmt) ==
    IF stmt.op = "insert"
    THEN rows \cup {WithOid(stmt.params, NextOid(rows))}
    ELSE {IF Matches(r, stmt.where) THEN WithOid(stmt.params, r.oid) ELSE r
            : r \in rows}

(* the where clause names a column the table does not have: the           *)
(* connection raises "no such column"                                      *)
TableColumns(table) ==
    UNION {{_get_columns(cls)[i] : i \in 1..Len(_get_columns(cls))}
             : cls \in {k \in DOMAIN _tables : _tables[k] = table}}

NoSuchColumn(stmt) ==
    \E i \in 1..Len(stmt.where) : stmt.where[i].col \notin TableColumns(stmt.table)

(* Connection().execute(sql, params): [ok, db, rows]; a rejected statement *)
(* raises and leaves the data as it was                                    *)
Execute(db, stmt) ==
    IF NoSuchColumn(stmt)
    THEN [ok |-> FALSE, db |-> db, rows |-> <<>>]
    ELSE IF IsSelect(stmt)
    THEN [ok |-> TRUE, db |-> db, rows |-> EvalSelect(db[stmt.table], stmt)]
    ELSE LET after == Written(db[stmt.table], stmt)
         IN  IF Violates(db, stmt.table, after)
             THEN [ok |-> FALSE, db |-> db, rows |-> <<>>]
             ELSE [ok |-> TRUE,
                   db |-> [db EXCEPT ![stmt.table] = after],
                   rows |-> <<>>]

(***************************************************************************)
(* State.                                                                  *)
(***************************************************************************)
VARIABLES
    queue,        \* _queue: the entries (sql, params, event), oldest first
    _rows,        \* _rows: event -> the rows its select fetched
    isSet,        \* the events that have been set
    db,           \* the tables as the connection sees them
    committed,    \* the tables as of the last commit
    uncommitted,  \* the events of the writes executed since the last commit
    wpc,          \* where each thread running _execute is in its loop
    cur,          \* the entry each such thread took from the queue
    stack,        \* per caller thread: the facade calls it is in, outermost first
    nextEvent,    \* the next Event() to be created
    ncalls,       \* the facade calls callers have made so far
    opState,      \* per event: NotQueued, Pending, Executing, Completed, Failed
    ret,          \* per event: what its facade call returned
    caught,       \* the events whose facade call caught an exception
    enqLog,       \* the entries in the order they were put on the queue
    execLog,      \* the events in the order the connection executed them
    connUsers,    \* the threads that have used the connection
    conn,         \* Connection: its _connection attribute, the connections
                  \* opened and bootstrapped, the connections it has returned
    commitLog,    \* per commit: the event of the statement it followed
    known,        \* per event: the events that had returned True when it was put
    initDb,       \* the stored data when the process started
    pg,           \* paging scenario: table, arguments, pages fetched so far
    cd,           \* codec scenario: entity, row, decoded entity
    qb            \* query builder scenario: arguments, the text built

vars == <<queue, _rows, isSet, db, committed, uncommitted, wpc, cur, stack,
          nextEvent, ncalls, opState, ret, caught, enqLog, execLog, connUsers,
          conn, commitLog, known, initDb, pg, cd, qb>>

qvars == <<queue, _rows, isSet, db, committed, uncommitted, wpc, cur, stack,
           nextEvent, ncalls, opState, ret, caught, enqLog, execLog, connUsers,
           conn, commitLog, known, initDb>>

(* a facade call puts at most five entries: its own statement and, for the *)
(* one request stored, the selects of its CoS, of its attempts, of the     *)
(* responses of its one attempt and of the paths of its one response       *)
Events == 1..(5 * MaxCalls)

NoEntry == <<>>
EmptyDb == [t \in Tables |-> {}]

ReturnPending == <<"pending">>
ReturnTrue == <<"True">>
ReturnFalse == <<"False">>
ReturnNone == <<"None">>
ReturnRows(rows) == <<"rows", rows>>
Raised == <<"raise">>

(* the except clause of a facade: insert and update return False, select   *)
(* and select_page return None                                             *)
OnExceptionReraise(api) == Raised
OnException(api) ==
    IF api \in {"insert", "update"} THEN ReturnFalse ELSE ReturnNone

(***************************************************************************)
(* The objects and arguments callers pass.                                 *)
(***************************************************************************)
CoSObj(t) ==
    [cls |-> "CoS", id |-> 1, max_response_time |-> Some(t), min_cpu |-> None]

RequestObj(path) ==
    [cls |-> "Request", id |-> 1, src |-> "a", cos |-> [id |-> 1],
     path |-> path]

(* an object of a class that has no table *)
NodeObj == [cls |-> "Node", id |-> 1]

AttemptObj == [cls |-> "Attempt", req_id |-> 1, src |-> "a", attempt_no |-> 1,
               path |-> Some(<<1, 2>>)]

ResponseObj == [cls |-> "Response", req_id |-> 1, src |-> "a", attempt_no |-> 1,
                host |-> "h", timestamp |-> 5]

PathObj == [cls |-> "Path", req_id |-> 1, src |-> "a", attempt_no |-> 1,
            host |-> "h", path |-> Some(<<1, 2>>), bandwidths |-> Some(<<1, 2>>),
            delays |-> Some(<<1, 2>>), jitters |-> Some(<<1, 2>>),
            loss_rates |-> Some(<<1, 2>>), timestamp |-> 5]

InsertObjs == {CoSObj(100), RequestObj(Some(<<1, 2>>)), NodeObj}
UpdateObjs == {CoSObj(50)}

(* update's _id: the default ('id',) *)
IdFields(obj) == {<<"id">>}

(* the selects callers make: class, as_obj, filters *)
SelectArgs ==
    {[cls |-> "CoS", as_obj |-> TRUE, kwargs |-> << <<"id", "=", 1>> >>],
     [cls |-> "Request", as_obj |-> TRUE, kwargs |-> <<>>],
     [cls |-> "CoS", as_obj |-> FALSE, kwargs |-> << <<"host", "=", 1>> >>]}

Frame(e, api, cls, as_obj) ==
    [event |-> e, api |-> api, cls |-> cls, as_obj |-> as_obj,
     items |-> <<>>, acc |-> <<>>, step |-> "wait", cosv |-> <<>>]

Entry(sql, e) == [sql |-> sql, event |-> e]

(***************************************************************************)
(* A caller thread from the moment its wait returns to its next put on the *)
(* queue or to the return of its outermost facade call.  The result is the *)
(* thread's new stack, the return values and caught exceptions so far and  *)
(* the nested select it is about to make, if any.                          *)
(***************************************************************************)
Top(stk) == stk[Len(stk)]
Pop(stk) == SubSeq(stk, 1, Len(stk) - 1)
SetTop(stk, f) == [stk EXCEPT ![Len(stk)] = f]

Out(stk, r, cg, call) == [stk |-> stk, ret |-> r, caught |-> cg, call |-> call]

SubSelect(cls, kwargs) == <<[cls |-> cls, kwargs |-> kwargs]>>

(* Request(item[0], item[1], <cos>, ..., eval(item[6]), ..., {attempts}) *)
RequestOf(item, cos, attempts) ==
    [cls |-> "Request", id |-> item.id, src |-> item.src, cos |-> cos,
     path |-> Some(Eval(item.path)), attempts |-> attempts]

(* Attempt(item[0], item[1], item[2], ..., eval(item[4]), ..., {responses}) *)
AttemptOf(item, responses) ==
    [cls |-> "Attempt", req_id |-> item.req_id, src |-> item.src,
     attempt_no |-> item.attempt_no, path |-> Some(Eval(item.path)),
     responses |-> responses]

(* Response(item[0], ..., timestamp, [select(Path, ...)]) *)
ResponseOf(item, paths) ==
    [cls |-> "Response", req_id |-> item.req_id, src |-> item.src,
     attempt_no |-> item.attempt_no, host |-> item.host,
     timestamp |-> timestamp(item.timestamp), paths |-> <<paths>>]

RECURSIVE ConvertLoop(_, _, _)
RECURSIVE Return(_, _, _, _)
RECURSIVE Deliver(_, _, _, _)

(* an exception in the top facade call: its except clause returns *)
Raise(stk, r, cg) ==
    Return(stk, OnException(Top(stk).api), r, cg \cup {Top(stk).event})

(* _convert(itr, cls): the loop over the rows still to decode *)
ConvertRows(stk, r, cg) ==
    LET f == Top(stk)
    IN  IF f.items = <<>> THEN Return(stk, ReturnRows(f.acc), r, cg)
        ELSE LET item == Head(f.items)
             IN  CASE f.cls = "CoS" ->
                        ConvertLoop(
                            SetTop(stk, [f EXCEPT !.items = Tail(@),
                                                  !.acc = Append(@, ConvertCoS(item))]),
                            r, cg)
                   [] f.cls = "Request" ->
                        Out(SetTop(stk, [f EXCEPT !.step = "cos"]), r, cg,
                            SubSelect("CoS", << <<"id", "=", item.cos_id>> >>))
                   [] f.cls = "Attempt" ->
                        IF EvalRaises(item.path) THEN Raise(stk, r, cg)
                        ELSE Out(SetTop(stk, [f EXCEPT !.step = "resp"]), r, cg,
                                 SubSelect("Response",
                                           << <<"req_id", "=", item.req_id>>,
                                              <<"src", "=", item.src>>,
                                              <<"attempt_no", "=", item.attempt_no>> >>))
                   [] f.cls = "Response" ->
                        Out(SetTop(stk, [f EXCEPT !.step = "paths"]), r, cg,
                            SubSelect("Path",
                                      << <<"req_id", "=", item.req_id>>,
                                         <<"src", "=", item.src>>,
                                         <<"attempt_no", "=", item.attempt_no>>,
                                         <<"host", "=", item.host>> >>))
                   [] f.cls = "Path" ->
                        IF ConvertPath(item)[1] # "ok" THEN Raise(stk, r, cg)
                        ELSE ConvertLoop(
                                SetTop(stk, [f EXCEPT !.items = Tail(@),
                                                      !.acc = Append(@, ConvertPath(item)[2])]),
                                r, cg)

(* the top facade call returns v, to its caller thread's code or to the    *)
(* _convert that made it                                                   *)
ReturnTo(stk, v, r, cg) ==
    LET r2 == [r EXCEPT ![Top(stk).event] = v]
        rest == Pop(stk)
    IN  IF rest = <<>> THEN Out(rest, r2, cg, <<>>)
        ELSE Deliver(rest, v, r2, cg)

(* _convert of a row goes on with the result v of its nested select.  For  *)
(* a Request: select(CoS, ...)[0], then eval(item[6]), then the attempts;  *)
(* for an Attempt the responses, which it iterates; for a Response the     *)
(* one-element list of what select(Path, ...) returned.                    *)
DeliverTo(stk, v, r, cg) ==
    LET f == Top(stk)
        item == Head(f.items)
    IN  CASE f.step = "cos" ->
                IF v[1] # "rows" THEN Raise(stk, r, cg)
                ELSE IF v[2] = <<>> THEN Raise(stk, r, cg)
                ELSE IF EvalRaises(item.path) THEN Raise(stk, r, cg)
                ELSE Out(SetTop(stk, [f EXCEPT !.step = "att",
                                               !.cosv = <<v[2][1]>>]),
                         r, cg,
                         SubSelect("Attempt", << <<"req_id", "=", item.id>>,
                                                 <<"src", "=", item.src>> >>))
          [] f.step = "att" ->
                IF v[1] # "rows" THEN Raise(stk, r, cg)
                ELSE ConvertLoop(
                        SetTop(stk,
                               [f EXCEPT !.items = Tail(@),
                                         !.acc = Append(@, RequestOf(item, f.cosv[1], v[2])),
                                         !.step = "wait", !.cosv = <<>>]),
                        r, cg)
          [] f.step = "resp" ->
                IF v[1] # "rows" THEN Raise(stk, r, cg)
                ELSE ConvertLoop(
                        SetTop(stk,
                               [f EXCEPT !.items = Tail(@),
                                         !.acc = Append(@, AttemptOf(item, v[2])),
                                         !.step = "wait"]),
                        r, cg)
          [] f.step = "paths" ->
                ConvertLoop(
                    SetTop(stk,
                           [f EXCEPT !.items = Tail(@),
                                     !.acc = Append(@, ResponseOf(item, v)),
                                     !.step = "wait"]),
                    r, cg)

(* the three steps above, each applied to the values of its arguments *)
ConvertLoop(stk, r, cg) ==
    CHOOSE o \in {ConvertRows(a[1], a[2], a[3]) : a \in {<<stk, r, cg>>}} : TRUE

Return(stk, v, r, cg) ==
    CHOOSE o \in {ReturnTo(a[1], a[2], a[3], a[4]) : a \in {<<stk, v, r, cg>>}} : TRUE

Deliver(stk, v, r, cg) ==
    CHOOSE o \in {DeliverTo(a[1], a[2], a[3], a[4]) : a \in {<<stk, v, r, cg>>}} : TRUE

(* event.wait() has returned in the top facade call *)
Wake(stk, r, cg) ==
    LET f == Top(stk)
    IN  IF f.api \in {"insert", "update"} THEN Return(stk, ReturnTrue, r, cg)
        ELSE IF f.event \notin DOMAIN _rows THEN Raise(stk, r, cg)
        ELSE IF ~f.as_obj THEN Return(stk, ReturnRows(_rows[f.event]), r, cg)
        ELSE ConvertLoop(SetTop(stk, [f EXCEPT !.items = _rows[f.event]]), r, cg)

(***************************************************************************)
(* Caller threads.                                                         *)
(***************************************************************************)
Idle(c) == stack[c] = <<>> /\ ncalls < MaxCalls

(* _queue.put((sql, params, event)) followed by event.wait() *)
Put(c, api, cls, as_obj, sql, stk) ==
    /\ queue' = Append(queue, Entry(sql, nextEvent))
    /\ enqLog' = Append(enqLog, Entry(sql, nextEvent))
    /\ opState' = [opState EXCEPT ![nextEvent] = "Pending"]
    /\ stack' = [stack EXCEPT ![c] = Append(stk, Frame(nextEvent, api, cls, as_obj))]
    /\ known' = [known EXCEPT ![nextEvent] = {e \in Events : ret[e] = ReturnTrue}]
    /\ nextEvent' = nextEvent + 1

(* the call raises before the put: its except clause returns *)
Fail(c, api) ==
    /\ ret' = [ret EXCEPT ![nextEvent] = OnException(api)]
    /\ caught' = caught \cup {nextEvent}
    /\ opState' = [opState EXCEPT ![nextEvent] = "NotQueued"]
    /\ nextEvent' = nextEvent + 1
    /\ UNCHANGED <<queue, enqLog, stack, known>>

Insert(c, obj) ==
    /\ Idle(c)
    /\ ncalls' = ncalls + 1
    /\ IF KeyError(obj.cls) THEN Fail(c, "insert")
       ELSE /\ Put(c, "insert", obj.cls, FALSE, InsertStmt(obj), <<>>)
            /\ UNCHANGED <<ret, caught>>
    /\ UNCHANGED <<_rows, isSet, db, committed, uncommitted, wpc, cur, execLog,
                   connUsers, conn, commitLog, initDb, pg, cd, qb>>

Update(c, obj, _id) ==
    /\ Idle(c)
    /\ ncalls' = ncalls + 1
    /\ IF AttributeError(obj, _id) \/ KeyError(obj.cls) THEN Fail(c, "update")
       ELSE /\ Put(c, "update", obj.cls, FALSE, UpdateStmt(obj, _id), <<>>)
            /\ UNCHANGED <<ret, caught>>
    /\ UNCHANGED <<_rows, isSet, db, committed, uncommitted, wpc, cur, execLog,
                   connUsers, conn, commitLog, initDb, pg, cd, qb>>

Select(c, a) ==
    /\ Idle(c)
    /\ ncalls' = ncalls + 1
    /\ IF KeyError(a.cls) THEN Fail(c, "select")
       ELSE /\ Put(c, "select", a.cls, a.as_obj,
                   SelectStmt(a.cls, <<>>, a.kwargs), <<>>)
            /\ UNCHANGED <<ret, caught>>
    /\ UNCHANGED <<_rows, isSet, db, committed, uncommitted, wpc, cur, execLog,
                   connUsers, conn, commitLog, initDb, pg, cd, qb>>

SelectPage(c, cls, page, page_size) ==
    /\ Idle(c)
    /\ ncalls' = ncalls + 1
    /\ IF KeyError(cls) THEN Fail(c, "select_page")
       ELSE /\ Put(c, "select_page", cls, FALSE,
                   SelectPageStmt(cls, page, page_size, <<"id">>, <<>>), <<>>)
            /\ UNCHANGED <<ret, caught>>
    /\ UNCHANGED <<_rows, isSet, db, committed, uncommitted, wpc, cur, execLog,
                   connUsers, conn, commitLog, initDb, pg, cd, qb>>

(* event.wait() returns once the event is set; without the wait the       *)
(* thread would go on at once                                              *)
WaitReturnsAtOnce(e, set) == TRUE
WaitReturns(e, set) == e \in set

(* the caller's event is set: it runs on to its next put or to its return *)
Resume(c) ==
    /\ stack[c] # <<>>
    /\ WaitReturns(Top(stack[c]).event, isSet)
    /\ \E o \in {Wake(stack[c], ret, caught)} :
           /\ ret' = o.ret
           /\ caught' = o.caught
           /\ IF o.call = <<>>
              THEN /\ stack' = [stack EXCEPT ![c] = o.stk]
                   /\ UNCHANGED <<queue, enqLog, opState, nextEvent, known>>
              ELSE Put(c, "select", o.call[1].cls, TRUE,
                        SelectStmt(o.call[1].cls, <<>>, o.call[1].kwargs), o.stk)
    /\ UNCHANGED <<_rows, isSet, db, committed, uncommitted, wpc, cur, execLog,
                   connUsers, conn, commitLog, initDb, ncalls, pg, cd, qb>>

(***************************************************************************)
(* The singleton connection.                                               *)
(***************************************************************************)
(* before the first Connection(): the class has no _connection attribute *)
NoConnection == [_connection |-> <<>>, opened |-> 0, bootstrapped |-> 0,
                 returned |-> {}]

(* hasattr(self, '_connection'), and the same test of a misspelt attribute *)
HasOtherAttr(k) == FALSE
HasAttr(k) == k._connection # <<>>

(* Connection(): connect(DB_PATH), the definitions and the seed on the     *)
(* first call, the stored _connection on every call                        *)
Connection(k) ==
    IF HasAttr(k)
    THEN [k EXCEPT !.returned = @ \cup {k._connection[1]}]
    ELSE [_connection |-> <<k.opened + 1>>,
          opened |-> k.opened + 1,
          bootstrapped |-> k.bootstrapped + 1,
          returned |-> k.returned \cup {k.opened + 1}]

(***************************************************************************)
(* The thread running _execute.                                            *)
(***************************************************************************)
(* _queue.get() on a queue.Queue: the oldest entry *)
TakeNewest(q) == [entry |-> q[Len(q)], rest |-> SubSeq(q, 1, Len(q) - 1)]
Take(q) == [entry |-> Head(q), rest |-> Tail(q)]

(* if sql[0:6] != 'select' and _queue.empty(): commit *)
ShouldCommitPending(sql, empty) == ~IsSelect(sql)
ShouldCommitSelects(sql, empty) == IsSelect(sql) /\ empty
ShouldCommit(sql, empty) == ~IsSelect(sql) /\ empty

(* the events set once the except clause has run: it logs and sets none;   *)
(* were it to set the event of the entry, the waiting facade would go on   *)
ExceptSignalsEvent(set, e) == set \cup {e}
ExceptSignals(set, e) == set

(* where the except clause leaves the thread: inside "while True", at the  *)
(* next _queue.get(); outside the loop it would leave _execute             *)
AfterExceptExit == "exit"
AfterExcept == "get"

(* _rows[event] = cursor.fetchall(), and the same were the fetched rows    *)
(* kept in one slot for all events                                         *)
StoreRowsShared(rows, e, fetched) == [k \in DOMAIN rows \cup {e} |-> fetched]
(* and were the mapping to keep the rows of the latest select only *)
StoreRowsLatest(rows, e, fetched) == [k \in {e} |-> fetched]
StoreRows(rows, e, fetched) ==
    [k \in DOMAIN rows \cup {e} |-> IF k = e THEN fetched ELSE rows[k]]

(* sql, params, event = _queue.get() *)
WorkerGet(w) ==
    /\ wpc[w] = "get"
    /\ queue # <<>>
    /\ cur' = [cur EXCEPT ![w] = Take(queue).entry]
    /\ queue' = Take(queue).rest
    /\ opState' = [opState EXCEPT ![Take(queue).entry.event] = "Executing"]
    /\ wpc' = [wpc EXCEPT ![w] = "execute"]
    /\ UNCHANGED <<_rows, isSet, db, committed, uncommitted, stack, nextEvent,
                   ret, caught, enqLog, execLog, connUsers, conn, commitLog, known,
                   initDb, ncalls, pg, cd, qb>>

(* cursor = Connection().execute(sql, params), and for a select            *)
(* _rows[event] = cursor.fetchall(); an exception is logged and the loop   *)
(* goes back to _queue.get().  The first Connection() commits the table    *)
(* definitions, and with them whatever the connection had not committed.   *)
WorkerExecute(w) ==
    /\ wpc[w] = "execute"
    /\ LET e == cur[w].event
           sql == cur[w].sql
           x == Execute(db, sql)
       IN  /\ connUsers' = connUsers \cup {w}
           /\ conn' = Connection(conn)
           /\ committed' = IF HasAttr(conn) THEN committed ELSE db
           /\ execLog' = Append(execLog, e)
           /\ IF x.ok
              THEN /\ db' = x.db
                   /\ _rows' = IF IsSelect(sql) THEN StoreRows(_rows, e, x.rows)
                               ELSE _rows
                   /\ uncommitted' =
                        (IF HasAttr(conn) THEN uncommitted ELSE {})
                            \cup (IF IsSelect(sql) THEN {} ELSE {e})
                   /\ wpc' = [wpc EXCEPT ![w] = "set"]
                   /\ UNCHANGED <<opState, cur>>
              ELSE /\ opState' = [opState EXCEPT ![e] = "Failed"]
                   /\ wpc' = [wpc EXCEPT ![w] = AfterExcept]
                   /\ cur' = [cur EXCEPT ![w] = NoEntry]
                   /\ uncommitted' = IF HasAttr(conn) THEN uncommitted ELSE {}
                   /\ UNCHANGED <<db, _rows>>
           /\ isSet' = IF x.ok THEN isSet ELSE ExceptSignals(isSet, e)
    /\ UNCHANGED <<queue, stack, nextEvent, ret, caught,
                   enqLog, commitLog, known, initDb, ncalls, pg, cd, qb>>

(* event.set(), were it made only on the branch that commits a write *)
WorkerSetWritesOnly(w) ==
    /\ wpc[w] = "set"
    /\ isSet' = IF IsSelect(cur[w].sql) THEN isSet ELSE isSet \cup {cur[w].event}
    /\ opState' = [opState EXCEPT ![cur[w].event] = "Completed"]
    /\ wpc' = [wpc EXCEPT ![w] = "commit"]
    /\ UNCHANGED <<queue, _rows, db, committed, uncommitted, cur, stack,
                   nextEvent, ret, caught, enqLog, execLog, connUsers, conn,
                   commitLog, known, initDb, ncalls, pg, cd, qb>>

(* event.set() *)
WorkerSet(w) ==
    /\ wpc[w] = "set"
    /\ isSet' = isSet \cup {cur[w].event}
    /\ opState' = [opState EXCEPT ![cur[w].event] = "Completed"]
    /\ wpc' = [wpc EXCEPT ![w] = "commit"]
    /\ UNCHANGED <<queue, _rows, db, committed, uncommitted, cur, stack,
                   nextEvent, ret, caught, enqLog, execLog, connUsers, conn,
                   commitLog, known, initDb, ncalls, pg, cd, qb>>

(* if sql[0:6] != 'select' and _queue.empty(): cursor.connection.commit() *)
WorkerCommit(w) ==
    /\ wpc[w] = "commit"
    /\ IF ShouldCommit(cur[w].sql, queue = <<>>)
       THEN /\ committed' = db
            /\ uncommitted' = {}
            /\ commitLog' = Append(commitLog, cur[w].event)
            /\ connUsers' = connUsers \cup {w}
       ELSE UNCHANGED <<committed, uncommitted, commitLog, connUsers>>
    /\ wpc' = [wpc EXCEPT ![w] = "get"]
    /\ cur' = [cur EXCEPT ![w] = NoEntry]
    /\ UNCHANGED <<queue, _rows, isSet, db, stack, nextEvent, opState, ret,
                   caught, enqLog, execLog, known, initDb, ncalls, conn, pg, cd, qb>>

(***************************************************************************)
(* The queue and its worker under concurrent callers.                      *)
(***************************************************************************)
(* the stored data when the process starts: nothing, or the seeded CoS *)
SeededDb == [EmptyDb EXCEPT !["cos"] = {WithOid(_adapt(CoSObj(100)), 1)}]
StoredDb(path) ==
    [SeededDb EXCEPT !["requests"] = {WithOid(_adapt(RequestObj(path)), 1)}]

(* a stored request with its attempt, the attempt's response and the       *)
(* response's path                                                         *)
TreeDb ==
    [StoredDb(Some(<<1, 2>>)) EXCEPT
        !["attempts"] = {WithOid(_adapt(AttemptObj), 1)},
        !["responses"] = {WithOid(_adapt(ResponseObj), 1)},
        !["paths"] = {WithOid(_adapt(PathObj), 1)}]

InitDbs == {EmptyDb, SeededDb, StoredDb(None)}

QueueInit(stored) ==
    /\ queue = <<>>
    /\ _rows = <<>>
    /\ isSet = {}
    /\ db = stored
    /\ committed = stored
    /\ uncommitted = {}
    /\ wpc = [w \in Workers |-> "get"]
    /\ cur = [w \in Workers |-> NoEntry]
    /\ stack = [c \in Callers |-> <<>>]
    /\ nextEvent = 1
    /\ ncalls = 0
    /\ opState = [e \in Events |-> "New"]
    /\ ret = [e \in Events |-> ReturnPending]
    /\ caught = {}
    /\ enqLog = <<>>
    /\ execLog = <<>>
    /\ connUsers = {}
    /\ conn = NoConnection
    /\ commitLog = <<>>
    /\ known = [e \in Events |-> {}]
    /\ initDb = stored

Init ==
    /\ \E stored \in InitDbs : QueueInit(stored)
    /\ pg = <<>>
    /\ cd = <<>>
    /\ qb = <<>>

Next ==
    \/ \E c \in Callers, obj \in InsertObjs : Insert(c, obj)
    \/ \E c \in Callers, obj \in UpdateObjs : \E _id \in IdFields(obj) : Update(c, obj, _id)
    \/ \E c \in Callers, a \in SelectArgs : Select(c, a)
    \/ \E c \in Callers : SelectPage(c, "Request", 2, 1)
    \/ \E c \in Callers : Resume(c)
    \/ \E w \in Workers : WorkerGet(w)
    \/ \E w \in Workers : WorkerExecute(w)
    \/ \E w \in Workers : WorkerSet(w)
    \/ \E w \in Workers : WorkerCommit(w)

Spec == Init /\ [][Next]_vars

(* the thread running _execute never stops taking entries, and a thread    *)
(* whose event is set runs on                                              *)
FairSpec ==
    /\ Spec
    /\ \A w \in Workers :
        /\ WF_vars(WorkerGet(w))
        /\ WF_vars(WorkerExecute(w))
        /\ WF_vars(WorkerSet(w))
        /\ WF_vars(WorkerCommit(w))
    /\ \A c \in Callers : WF_vars(Resume(c))

(***************************************************************************)
(* Properties of the queue and its worker.                                 *)
(***************************************************************************)
Queued(e) == \E i \in 1..Len(enqLog) : enqLog[i].event = e
SqlOf(e) == enqLog[CHOOSE i \in 1..Len(enqLog) : enqLog[i].event = e].sql
IsWrite(e) == Queued(e) /\ ~IsSelect(SqlOf(e))
WorkerIdle == queue = <<>> /\ \A w \in Workers : wpc[w] = "get"

(* the stored data after executing the statements one after the other *)
RECURSIVE ApplyAll(_, _)
ApplyAll(d, sqls) ==
    IF sqls = <<>> THEN d ELSE ApplyAll(Execute(d, Head(sqls)).db, Tail(sqls))

(* C1: the worker executes the queued operations in exactly the order they *)
(* were put on the queue, none skipped, and the stored data is that of     *)
(* executing them one after the other in that order.                       *)
C1_FifoOrder ==
    LET n == Len(execLog)
        taken == n + Cardinality({w \in Workers : wpc[w] = "execute"})
    IN  /\ taken <= Len(enqLog)
        /\ \A i \in 1..n : execLog[i] = enqLog[i].event
        /\ \A w \in Workers : wpc[w] = "execute" => cur[w] = enqLog[n + 1]
        /\ queue = SubSeq(enqLog, taken + 1, Len(enqLog))
        /\ db = ApplyAll(initDb, [i \in 1..n |-> enqLog[i].sql])

(* two writes put by concurrent callers have been executed, and the stored *)
(* data would differ had they been executed in the other order             *)
C1_Witness ==
    /\ Len(execLog) = 2
    /\ IsWrite(execLog[1]) /\ IsWrite(execLog[2])
    /\ known[execLog[2]] = {}
    /\ opState[execLog[1]] = "Completed" /\ opState[execLog[2]] = "Completed"
    /\ db # ApplyAll(initDb, <<enqLog[2].sql, enqLog[1].sql>>)

(* C2: every operation put on the queue eventually has its event set,      *)
(* whether its execution succeeds or fails.                                *)
C2_EveryOpSignalled ==
    \A e \in Events : (opState[e] = "Pending") ~> (e \in isSet)

(* C3: at most one operation is being executed at any instant, and only    *)
(* the one worker thread ever uses the connection.                         *)
C3_SingleExecutor ==
    /\ Cardinality({e \in Events : opState[e] = "Executing"}) <= 1
    /\ Cardinality(connUsers) <= 1
    /\ connUsers \subseteq Workers

(* an operation is being executed while another one is pending *)
C3_Witness ==
    /\ \E e \in Events : opState[e] = "Executing"
    /\ \E e \in Events : opState[e] = "Pending"
    /\ connUsers # {}

(* C4: an insert the store rejects ends Failed and its caller's insert     *)
(* returns False.                                                          *)
C4_RejectedInsertReturnsFalse ==
    \A e \in Events :
        (opState[e] = "Failed" /\ SqlOf(e).op = "insert") ~> (ret[e] = ReturnFalse)

NoneFailed == \A e \in Events : opState[e] # "Failed"

(* C5 as claimed, on the runs in which every statement succeeded: whenever *)
(* the queue is empty and the worker waits for the next entry, no executed *)
(* write is uncommitted.                                                   *)
C5_DrainedMeansCommitted == (WorkerIdle /\ NoneFailed) => uncommitted = {}

LastExecuted == execLog[Len(execLog)]

(* C5 as amended: whenever the queue is empty, the worker waits for the    *)
(* next entry and the statement it executed last was a write that          *)
(* succeeded, no executed write is uncommitted.                            *)
C5_CommittedAfterLastWrite ==
    ( /\ WorkerIdle
      /\ execLog # <<>>
      /\ IsWrite(LastExecuted)
      /\ opState[LastExecuted] = "Completed" )
    => uncommitted = {}

(* two writes were executed and one commit, after the second, covers both *)
C5_Witness ==
    /\ WorkerIdle
    /\ Len(execLog) = 2
    /\ IsWrite(execLog[1]) /\ IsWrite(execLog[2])
    /\ opState[execLog[1]] = "Completed" /\ opState[execLog[2]] = "Completed"
    /\ commitLog = <<execLog[2]>>
    /\ uncommitted = {}
    /\ committed = db

(* C12: at most one connection is ever opened and bootstrapped: the first  *)
(* acquisition opens it, and every acquisition returns that connection.    *)
C12_SingleConnection ==
    /\ conn.opened <= 1
    /\ conn.bootstrapped <= 1
    /\ Cardinality(conn.returned) <= 1
    /\ execLog = <<>> => conn = NoConnection
    /\ execLog # <<>> =>
        /\ conn.opened = 1
        /\ conn.bootstrapped = 1
        /\ conn._connection = <<1>>
        /\ conn.returned = {1}

(* the connection was acquired three times, once for a statement that      *)
(* failed                                                                  *)
C12_Witness ==
    /\ Len(execLog) = 3
    /\ opState[execLog[2]] = "Failed"
    /\ opState[execLog[3]] = "Completed"
    /\ conn.opened = 1
    /\ conn.returned = {1}

(* the facade call of each event *)
ApiIsWrite(e) == Queued(e) /\ SqlOf(e).op \in {"insert", "update"}

(* C6: no facade call raises to its caller; insert and update return a     *)
(* boolean, select and select_page return rows or None, and a call that    *)
(* failed returns neither True nor rows.                                   *)
C6_NeverRaises ==
    \A e \in Events :
        /\ ret[e] \in {ReturnPending, ReturnTrue, ReturnFalse, ReturnNone}
            \/ ret[e][1] = "rows"
        /\ ret[e] # Raised
        /\ (ApiIsWrite(e) /\ ret[e] # ReturnPending)
            => ret[e] \in {ReturnTrue, ReturnFalse}
        /\ (Queued(e) /\ IsSelect(SqlOf(e)) /\ ret[e] # ReturnPending)
            => (ret[e] = ReturnNone \/ ret[e][1] = "rows")
        /\ (e \in caught \/ opState[e] = "Failed")
            => ret[e] \in {ReturnPending, ReturnFalse, ReturnNone}
        /\ (e \in caught) => ret[e] # ReturnPending

(* an insert that failed while building returned False, and a select whose *)
(* statement executed but whose rows could not be decoded returned None    *)
C6_Witness ==
    /\ \E e \in Events : opState[e] = "NotQueued" /\ ret[e] = ReturnFalse
    /\ \E e \in Events :
        /\ opState[e] = "Completed"
        /\ e \in caught
        /\ ret[e] = ReturnNone

ExecPos(e) == CHOOSE i \in 1..Len(execLog) : execLog[i] = e

(* the writes to table that were executed before event e was, and took     *)
(* effect or not                                                           *)
WritesBefore(e, table) ==
    {i \in 1..(ExecPos(e) - 1) :
        /\ IsWrite(execLog[i])
        /\ SqlOf(execLog[i]).table = table
        /\ opState[execLog[i]] = "Completed"}

(* C10: once an insert or update of a CoS has returned True, every select  *)
(* of that CoS put on the queue afterwards returns its row, with the       *)
(* values of the latest write executed before the select.                  *)
C10_ReadYourWrites ==
    \A s \in Events :
        ( /\ ret[s][1] = "rows"
          /\ SqlOf(s).table = "cos"
          /\ \E w \in known[s] : SqlOf(w).table = "cos" )
        => /\ Len(ret[s][2]) = 1
           /\ ret[s][2][1].max_response_time =
                SqlOf(execLog[SetMax(WritesBefore(s, "cos"))]).params.max_response_time

(* the same, for the selects put after a write that found its row: an      *)
(* insert, or an update of a stored CoS                                    *)
C10_AfterEffectiveWrite ==
    \A s \in Events :
        ( /\ ret[s][1] = "rows"
          /\ SqlOf(s).table = "cos"
          /\ \E w \in known[s] : SqlOf(w).table = "cos"
          /\ initDb["cos"] # {} \/ \E w \in known[s] : SqlOf(w).op = "insert" )
        => /\ Len(ret[s][2]) = 1
           /\ ret[s][2][1].max_response_time =
                SqlOf(execLog[SetMax(WritesBefore(s, "cos"))]).params.max_response_time

(* a step that commits: the worker's commit, or any step after which what  *)
(* is committed has changed or no write is left uncommitted                *)
Commits ==
    \/ Len(commitLog') > Len(commitLog)
    \/ committed' # committed
    \/ uncommitted # {} /\ uncommitted' = {}

(* the worker w passes line 312 for the entry it took *)
PassesCommit(w) == wpc[w] = "commit" /\ wpc'[w] = "get"

(* C15: only the worker commits, and only right after executing a write    *)
(* that found the queue empty; the worker's step after a select, or after  *)
(* a write with entries still queued, commits nothing.                     *)
C15_CommitOnlyAfterWrite ==
    [][ /\ Commits =>
            \E w \in Workers :
                /\ PassesCommit(w)
                /\ ~IsSelect(cur[w].sql)
                /\ opState[cur[w].event] = "Completed"
                /\ LastExecuted = cur[w].event
                /\ queue = <<>>
                /\ committed' = db
        /\ \A w \in Workers :
            (PassesCommit(w) /\ (IsSelect(cur[w].sql) \/ queue # <<>>))
                => UNCHANGED <<committed, uncommitted, commitLog>> ]_vars

(* a write was executed while a select was queued behind it, then the      *)
(* select, and nothing has been committed                                  *)
C15_Witness ==
    /\ WorkerIdle
    /\ Len(execLog) = 2
    /\ IsWrite(execLog[1]) /\ opState[execLog[1]] = "Completed"
    /\ ~IsWrite(execLog[2]) /\ opState[execLog[2]] = "Completed"
    /\ execLog[1] \notin known[execLog[2]]
    /\ commitLog = <<>>
    /\ uncommitted = {execLog[1]}
    /\ committed = initDb /\ db # initDb

(* the worker has executed, in the order of the queue, the entries put     *)
(* before the one it will take next                                        *)
ExecutedInOrder ==
    /\ Len(execLog) <= Len(enqLog)
    /\ \A i \in 1..Len(execLog) : execLog[i] = enqLog[i].event
    /\ \A w \in Workers : wpc[w] \in {"get", "execute", "set", "commit"}

(* C16: whatever operations have Failed, the worker goes on taking the     *)
(* entries in the order of the queue, and every operation put on the queue *)
(* is eventually executed to Completed or Failed.                          *)
C16_FailureDoesNotStopWorker ==
    /\ []ExecutedInOrder
    /\ \A e \in Events :
          (opState[e] = "Pending") ~> (opState[e] \in {"Completed", "Failed"})

(* an insert failed, and the select of the stored request put behind it    *)
(* and the sub-select of its CoS, put after the failure, were executed     *)
C16_Witness ==
    /\ Len(execLog) >= 3
    /\ opState[execLog[1]] = "Failed"
    /\ SqlOf(execLog[2]).table = "requests" /\ IsSelect(SqlOf(execLog[2]))
    /\ opState[execLog[2]] = "Completed"
    /\ SqlOf(execLog[3]).table = "cos" /\ IsSelect(SqlOf(execLog[3]))
    /\ opState[execLog[3]] = "Completed"
    /\ ret[execLog[2]] # ReturnPending

(* C18: an insert or update that returned True is Completed: the worker    *)
(* has executed its statement without error and set its event; the write   *)
(* may still be uncommitted.                                               *)
C18_TrueMeansCompleted ==
    \A e \in Events :
        ret[e] = ReturnTrue =>
            /\ ApiIsWrite(e)
            /\ opState[e] = "Completed"
            /\ e \in isSet
            /\ \E i \in 1..Len(execLog) : execLog[i] = e
            /\ e \notin caught

(* an insert has returned True while the worker has yet to reach the       *)
(* commit, and its row is stored but not committed                         *)
C18_Witness ==
    \E e \in Events :
        /\ ret[e] = ReturnTrue
        /\ SqlOf(e).op = "insert"
        /\ e \in uncommitted
        /\ db # committed
        /\ \E w \in Workers : wpc[w] = "commit" /\ cur[w].event = e

Outstanding(e) == opState[e] \in {"Pending", "Executing"}

(* C19: every operation that is Pending or Executing is the innermost      *)
(* facade call of exactly one caller thread, which waits for it, so each   *)
(* thread has at most one outstanding operation and the queue is never     *)
(* longer than the number of caller threads.                               *)
C19_OneOutstandingPerCaller ==
    /\ \A e \in Events :
          Outstanding(e) =>
            /\ Cardinality({c \in Callers :
                    \E i \in 1..Len(stack[c]) : stack[c][i].event = e}) = 1
            /\ \E c \in Callers : stack[c] # <<>> /\ Top(stack[c]).event = e
    /\ \A c \in Callers :
          Cardinality({i \in 1..Len(stack[c]) : Outstanding(stack[c][i].event)}) <= 1
    /\ Cardinality({e \in Events : Outstanding(e)}) <= NumCallers
    /\ Len(queue) <= NumCallers

(* every caller thread has an operation in the queue, one of them a        *)
(* sub-select of a select that is rebuilding its rows                      *)
C19_Witness ==
    /\ Len(queue) = NumCallers
    /\ \A c \in Callers : stack[c] # <<>> /\ Outstanding(Top(stack[c]).event)
    /\ \E c \in Callers : Len(stack[c]) = 2

(* the rows the statement of event e selects from the stored data as it is *)
(* after the statements put on the queue before it                         *)
QueuePos(e) == CHOOSE i \in 1..Len(enqLog) : enqLog[i].event = e
OwnRows(e) ==
    Execute(ApplyAll(initDb, [i \in 1..(QueuePos(e) - 1) |-> enqLog[i].sql]),
            SqlOf(e)).rows

(* C14: an event is set only after the worker has executed its operation,  *)
(* a caller thread goes on only when its own event is set, and from then   *)
(* on _rows holds, under the event of a select, the rows of that select's  *)
(* own statement.                                                          *)
C14_OwnResult ==
    /\ \A e \in isSet :
          /\ opState[e] = "Completed"
          /\ \E i \in 1..Len(execLog) : execLog[i] = e
          /\ IsSelect(SqlOf(e)) =>
                /\ e \in DOMAIN _rows
                /\ _rows[e] = OwnRows(e)
    /\ \A e \in Events :
          (Queued(e) /\ ret[e] # ReturnPending) => e \in isSet
    /\ \A e \in Events :
          (Queued(e) /\ ret[e][1] = "rows" /\ SqlOf(e).table # "requests")
            => Len(ret[e][2]) = Len(OwnRows(e))

(* a caller thread has yet to go on with the rows of its select while the  *)
(* worker has stored different rows for a select another thread put later  *)
C14_Witness ==
    \E c \in Callers : \E e2 \in isSet :
        /\ stack[c] # <<>>
        /\ Top(stack[c]).event \in isSet
        /\ Top(stack[c]).event < e2
        /\ IsSelect(SqlOf(e2))
        /\ IsSelect(SqlOf(Top(stack[c]).event))
        /\ _rows[e2] # _rows[Top(stack[c]).event]

(* the selects the connection has executed without raising, by their       *)
(* position in the order of execution                                      *)
SelectsExecuted ==
    {i \in 1..Len(execLog) :
        IsSelect(SqlOf(execLog[i])) /\ opState[execLog[i]] # "Failed"}

RowsKept == \A e \in DOMAIN _rows : e \in DOMAIN _rows' /\ _rows'[e] = _rows[e]

(* C20: _rows only grows: no step of the worker or of a caller thread,     *)
(* whether the operation succeeds or fails, removes or replaces an entry,  *)
(* and in every state the number of its entries is the number of selects   *)
(* the connection has executed without raising so far.                     *)
C20_RowsOnlyGrow ==
    /\ [](Cardinality(DOMAIN _rows) = Cardinality(SelectsExecuted))
    /\ [][RowsKept]_vars

(* two selects have left their entry, the caller of one has returned, and  *)
(* a select the connection rejected has left none                          *)
C20_Witness ==
    /\ Cardinality(DOMAIN _rows) >= 2
    /\ \E e \in DOMAIN _rows : ret[e] # ReturnPending
    /\ \E e \in Events :
          Queued(e) /\ IsSelect(SqlOf(e)) /\ opState[e] = "Failed"

(***************************************************************************)
(* Selects that reconstruct a stored request with its children, under      *)
(* concurrent callers.                                                     *)
(***************************************************************************)
NestedInit ==
    /\ QueueInit(TreeDb)
    /\ pg = <<>>
    /\ cd = <<>>
    /\ qb = <<>>

NestedNext ==
    \/ \E c \in Callers, a \in SelectArgs : Select(c, a)
    \/ \E c \in Callers, obj \in UpdateObjs : \E _id \in IdFields(obj) : Update(c, obj, _id)
    \/ \E c \in Callers : Resume(c)
    \/ \E w \in Workers : WorkerGet(w)
    \/ \E w \in Workers : WorkerExecute(w)
    \/ \E w \in Workers : WorkerSet(w)
    \/ \E w \in Workers : WorkerCommit(w)

SpecNested == NestedInit /\ [][NestedNext]_vars

FairNested ==
    /\ SpecNested
    /\ \A w \in Workers :
        /\ WF_vars(WorkerGet(w))
        /\ WF_vars(WorkerExecute(w))
        /\ WF_vars(WorkerSet(w))
        /\ WF_vars(WorkerCommit(w))
    /\ \A c \in Callers : WF_vars(Resume(c))

(* the facade calls a caller thread is in below its innermost one have had *)
(* their event set, and every queued entry is the innermost call of a      *)
(* caller thread that waits for it                                         *)
NestedAfterParent ==
    /\ \A c \in Callers : \A i \in 1..(Len(stack[c]) - 1) :
            /\ stack[c][i].event \in isSet
            /\ opState[stack[c][i].event] = "Completed"
    /\ \A i \in 1..Len(queue) :
            \E c \in Callers :
                /\ stack[c] # <<>>
                /\ Top(stack[c]).event = queue[i].event

(* a caller thread is in a select or select_page it called *)
InSelect(c) == stack[c] # <<>> /\ stack[c][1].api \in {"select", "select_page"}

(* the connection rejected a statement of a call the caller thread is in *)
StatementFailed(c) ==
    \E i \in 1..Len(stack[c]) : opState[stack[c][i].event] = "Failed"

(* C11: a sub-select is put on the queue by its caller thread only after   *)
(* the parent select's event was set, and a caller thread that called      *)
(* select eventually returns from it, sub-selects included, unless the     *)
(* connection rejects one of its statements, whatever the other caller     *)
(* threads do.                                                             *)
C11_NestedSelectReturns ==
    /\ []NestedAfterParent
    /\ \A c \in Callers : InSelect(c) ~> (stack[c] = <<>> \/ StatementFailed(c))

(* the first select returned the stored request with its CoS, its attempt, *)
(* the attempt's response and the response's path, and another caller's    *)
(* write was put on the queue between its sub-selects                      *)
C11_Witness ==
    /\ ret[1][1] = "rows"
    /\ Len(ret[1][2]) = 1
    /\ ret[1][2][1].cls = "Request"
    /\ ret[1][2][1].cos.cls = "CoS"
    /\ Len(ret[1][2][1].attempts) = 1
    /\ Len(ret[1][2][1].attempts[1].responses) = 1
    /\ ret[1][2][1].attempts[1].responses[1].paths[1] = ReturnRows(<<PathObj>>)
    /\ \E f \in 2..5 : ApiIsWrite(f) /\ opState[f] \in {"Completed", "Failed"}

(***************************************************************************)
(* insert and update of requests, whose key is (id, src).                  *)
(***************************************************************************)
RequestFrom(src) == [RequestObj(Some(<<1, 2>>)) EXCEPT !.src = src]

(* the requests callers write: the same id from two sources *)
KeyObjs == {RequestFrom("a"), RequestFrom("b")}

(* update's _id: the default ('id',), or the key of the table *)
KeyFields == {<<"id">>, <<"id", "src">>}

(* the seeded CoS and the request of source "b" are stored *)
KeyDb ==
    [SeededDb EXCEPT !["requests"] = {WithOid(_adapt(RequestFrom("b")), 1)}]

KeyInit ==
    /\ QueueInit(KeyDb)
    /\ pg = <<>>
    /\ cd = <<>>
    /\ qb = <<>>

KeyNext ==
    \/ \E c \in Callers, obj \in KeyObjs : Insert(c, obj)
    \/ \E c \in Callers, obj \in KeyObjs, _id \in KeyFields : Update(c, obj, _id)
    \/ \E c \in Callers : Resume(c)
    \/ \E w \in Workers : WorkerGet(w)
    \/ \E w \in Workers : WorkerExecute(w)
    \/ \E w \in Workers : WorkerSet(w)
    \/ \E w \in Workers : WorkerCommit(w)

SpecKeys == KeyInit /\ [][KeyNext]_vars

(* a step leaves every stored row the key it had *)
KeysKept ==
    \A t \in Tables : \A r \in db[t] : \A q \in db'[t] :
        q.oid = r.oid => KeyOf(q, t) = KeyOf(r, t)

(* a step changes only the rows whose key is the key of the object of the  *)
(* statement being executed                                                *)
OnlyOwnRow ==
    \A t \in Tables : \A r \in db[t] : \A q \in db'[t] :
        (q.oid = r.oid /\ q # r) =>
            \E w \in Workers :
                /\ wpc[w] = "execute"
                /\ cur[w].sql.table = t
                /\ KeyOf(r, t) = KeyOf(cur[w].sql.params, t)

(* C13: no insert or update, with the default key fields or with the key   *)
(* of the table, changes the key columns of a stored row, and an update    *)
(* changes only the row whose key is the key of its object.                *)
C13_KeysNeverMutated == [][KeysKept /\ OnlyOwnRow]_vars

(***************************************************************************)
(* select_page against select, on a table of requests.                     *)
(***************************************************************************)
(* a request row: the ids are 1..n, the rowids in the same or the reverse  *)
(* order                                                                   *)
PageRow(i, n, cos_id, reversed) ==
    [oid |-> IF reversed THEN n + 1 - i ELSE i,
     id |-> i, src |-> "a", cos_id |-> cos_id, path |-> NULL]

PageTables ==
    UNION {{{PageRow(i, n, cos[i], reversed) : i \in 1..n}
                : cos \in [1..n -> {1, 2}], reversed \in BOOLEAN}
             : n \in 0..MaxRows}

PageFilters == {<<>>, << <<"cos_id", "=", 1>> >>}
PageOrders == {<<"id">>, <<"cos_id", "id">>}

PageInit ==
    /\ QueueInit(EmptyDb)
    /\ cd = <<>>
    /\ qb = <<>>
    /\ pg \in [table : PageTables, kwargs : PageFilters, orders : PageOrders,
               page_size : 1..MaxPageSize, pages : {<<>>}, all : {<<>>}]

(* select_page(Request, page, page_size, orders=..., as_obj=False, ...)    *)
(* for the next page                                                       *)
FetchPage ==
    /\ Len(pg.pages) < MaxPage
    /\ pg' = [pg EXCEPT !.pages =
                Append(@, EvalSelect(pg.table,
                                     SelectPageStmt("Request", Len(pg.pages) + 1,
                                                    pg.page_size, pg.orders,
                                                    pg.kwargs)))]
    /\ UNCHANGED <<qvars, cd, qb>>

(* select(Request, orders=..., as_obj=False, ...) *)
SelectAll ==
    /\ pg.all = <<>>
    /\ pg' = [pg EXCEPT !.all =
                Some(EvalSelect(pg.table, SelectStmt("Request", pg.orders, pg.kwargs)))]
    /\ UNCHANGED <<qvars, cd, qb>>

PageNext == FetchPage \/ SelectAll

SpecPage == PageInit /\ [][PageNext]_vars

Min(a, b) == IF a <= b THEN a ELSE b
Slice(seq, a, b) == IF a > Len(seq) THEN <<>> ELSE SubSeq(seq, a, Min(b, Len(seq)))

(* C7: for any filters and any order with a unique tiebreaker, the pages   *)
(* are pairwise disjoint and page p holds rows (p-1)*page_size+1 to        *)
(* p*page_size of the unpaged select: in page order they concatenate to it *)
C7_PagesPartitionSelect ==
    /\ \A p, q \in 1..Len(pg.pages) :
        p # q => RowOids(pg.pages[p]) \cap RowOids(pg.pages[q]) = {}
    /\ pg.all # <<>> =>
        \A p \in 1..Len(pg.pages) :
            pg.pages[p] = Slice(pg.all[1], (p - 1) * pg.page_size + 1,
                                p * pg.page_size)

RowWithId(table, i) == CHOOSE r \in table : r.id = i

(* C8: with no filters and the order ('id',), page p of a table of n rows  *)
(* holds the rows at positions (p-1)*page_size+1 to min(p*page_size, n) in *)
(* ascending id, and is empty when (p-1)*page_size >= n.                   *)
C8_PageIsSliceById ==
    (pg.kwargs = <<>> /\ pg.orders = <<"id">>) =>
        \A p \in 1..Len(pg.pages) :
            LET n == Cardinality(pg.table)
                first == (p - 1) * pg.page_size + 1
                last == Min(p * pg.page_size, n)
            IN  /\ first > n => pg.pages[p] = <<>>
                /\ first <= n =>
                    pg.pages[p] = [k \in 1..(last - first + 1) |->
                                      RowWithId(pg.table, first + k - 1)]

(* page 2 is full and page 3 is empty, on a table stored out of id order *)
C8_Witness ==
    /\ pg.kwargs = <<>> /\ pg.orders = <<"id">>
    /\ Len(pg.pages) = 3
    /\ pg.page_size = 2
    /\ Cardinality(pg.table) = 4
    /\ \E r \in pg.table : r.oid # r.id
    /\ Len(pg.pages[2]) = 2 /\ pg.pages[2][1].id = 3 /\ pg.pages[2][2].id = 4
    /\ pg.pages[3] = <<>>

(***************************************************************************)
(* _convert(_adapt(e)) against e.                                          *)
(***************************************************************************)
OptLists == {None, Some(<<>>), Some(<<1, 2>>)}

PathEntities ==
    [cls : {"Path"}, req_id : {1}, src : {"a"}, attempt_no : {1}, host : {"h"},
     path : OptLists, bandwidths : OptLists,
     delays : OptLists, jitters : OptLists, loss_rates : OptLists,
     timestamp : {0, 5}]

CoSEntities ==
    [cls : {"CoS"}, id : {1}, max_response_time : {None, Some(100)},
     min_cpu : {None, Some(2)}]

CodecInit ==
    /\ QueueInit(EmptyDb)
    /\ pg = <<>>
    /\ qb = <<>>
    /\ cd \in [entity : PathEntities \cup CoSEntities, row : {<<>>},
               out : {<<>>}, stage : {"new"}]

(* _convert([item], cls) of one row: <<"ok", obj>> or the exception *)
ConvertRow(item, cls) ==
    IF cls = "CoS" THEN <<"ok", ConvertCoS(item)>> ELSE ConvertPath(item)

Adapt ==
    /\ cd.stage = "new"
    /\ cd' = [cd EXCEPT !.row = _adapt(cd.entity), !.stage = "adapted"]
    /\ UNCHANGED <<qvars, pg, qb>>

Convert ==
    /\ cd.stage = "adapted"
    /\ cd' = [cd EXCEPT !.out = ConvertRow(cd.row, cd.entity.cls),
                        !.stage = "converted"]
    /\ UNCHANGED <<qvars, pg, qb>>

CodecNext == Adapt \/ Convert

SpecCodec == CodecInit /\ [][CodecNext]_vars

(* C9: decoding the row that encoding an entity produced gives the entity  *)
(* back, also when its optional fields are unset.                          *)
C9_RoundTrip == cd.stage = "converted" => cd.out = <<"ok", cd.entity>>

(***************************************************************************)
(* The text of the statements.  A text is a sequence of characters; a      *)
(* column name, an operator and a table name each stand as one character.  *)
(***************************************************************************)
(* t[:-n] and t[1:-1] *)
DropLast(t, n) == IF Len(t) <= n THEN <<>> ELSE SubSeq(t, 1, Len(t) - n)
Inner(t) == IF Len(t) <= 2 THEN <<>> ELSE SubSeq(t, 2, Len(t) - 1)

(* for x in xs: acc += x + ',' *)
RECURSIVE AppendEach(_, _)
AppendEach(acc, xs) ==
    IF xs = <<>> THEN acc
    ELSE AppendEach(acc \o <<Head(xs), ",">>, Tail(xs))

(* _get_fields_str(fields) *)
FieldsStr(fields) ==
    LET fields_str == AppendEach(<<"*">>, fields)
    IN  IF fields_str # <<"*">> THEN Inner(fields_str) ELSE fields_str

(* _get_groups_str(groups) *)
GroupsStr(groups) ==
    DropLast(IF TruthyList(groups)
             THEN AppendEach(<<" ", "g", "r", "o", "u", "p", " ", "b", "y", " ">>,
                             groups[1])
             ELSE <<>>, 1)

(* _get_orders_str(orders) *)
OrdersStr(orders) ==
    DropLast(IF TruthyList(orders)
             THEN AppendEach(<<" ", "o", "r", "d", "e", "r", " ", "b", "y", " ">>,
                             orders[1])
             ELSE <<>>, 1)

(* for key in kwargs: where += key + cond + '? and ' *)
RECURSIVE WhereLoop(_, _)
WhereLoop(where, kwargs) ==
    IF kwargs = <<>> THEN where
    ELSE WhereLoop(where \o <<Head(kwargs)[1], Head(kwargs)[2]>>
                         \o <<"?", " ", "a", "n", "d", " ">>,
                   Tail(kwargs))

(* where[:-4], and the same cut one character short *)
WhereBodyShort(where) == DropLast(where, 3)
WhereBody(where) == DropLast(where, 4)

(* _get_where_str: the text and the bound values *)
WhereStr(kwargs) ==
    LET where == WhereLoop(<<>>, kwargs)
    IN  IF where # <<>>
        THEN <<" ", "w", "h", "e", "r", "e", " ">> \o WhereBody(where)
        ELSE where

WhereVals(kwargs) == [i \in 1..Len(kwargs) |-> Str(kwargs[i][3])]

(* 'select {} from {} {}'.format(fields, table, where + group_by + order_by) *)
SelectSql(cls, fields, groups, orders, kwargs) ==
    <<"s", "e", "l", "e", "c", "t", " ">> \o FieldsStr(fields)
        \o <<" ", "f", "r", "o", "m", " ", _tables[cls], " ">>
        \o WhereStr(kwargs) \o GroupsStr(groups) \o OrdersStr(orders)

(* the arguments of select: filters in the order of the mapping, on        *)
(* distinct columns; fields; groups and orders, None or a tuple            *)
FilterCols == {"id", "src", "host"}
FilterConds == {"=", "<"}
FilterVals == {"7", "10.0.0.2"}

FilterSets ==
    UNION {{f \in [1..n -> FilterCols \X FilterConds \X FilterVals] :
                \A i, j \in 1..n : i # j => f[i][1] # f[j][1]}
             : n \in 0..MaxFilters}

FieldLists == {<<"*">>, <<>>, <<"id">>, <<"id", "src">>}
ColLists == {None, Some(<<>>), Some(<<"src">>), Some(<<"id", "src">>)}

BuilderInit ==
    /\ QueueInit(EmptyDb)
    /\ pg = <<>>
    /\ cd = <<>>
    /\ qb \in [cls : {"Request"}, kwargs : FilterSets, fields : FieldLists,
               groups : ColLists, orders : ColLists, out : {<<>>}]

(* select(cls, fields, groups, orders, **kwargs) up to the put *)
BuildSelect ==
    /\ qb.out = <<>>
    /\ qb' = [qb EXCEPT !.out =
                <<[where |-> WhereStr(qb.kwargs),
                   vals |-> WhereVals(qb.kwargs),
                   fields |-> FieldsStr(qb.fields),
                   groups |-> GroupsStr(qb.groups),
                   orders |-> OrdersStr(qb.orders),
                   sql |-> SelectSql(qb.cls, qb.fields, qb.groups, qb.orders,
                                     qb.kwargs)]>>]
    /\ UNCHANGED <<qvars, pg, cd>>

BuilderNext == BuildSelect

SpecBuilder == BuilderInit /\ [][BuilderNext]_vars

(* the texts joined by sep *)
RECURSIVE Join(_, _)
Join(texts, sep) ==
    IF texts = <<>> THEN <<>>
    ELSE IF Len(texts) = 1 THEN texts[1]
    ELSE texts[1] \o sep \o Join(Tail(texts), sep)

NotSpace(ch) == ch # " "
Squeeze(t) == SelectSeq(t, NotSpace)
IsPlaceholder(ch) == ch = "?"
Names(cols) == [i \in 1..Len(cols) |-> <<cols[i]>>]

(* the clauses a well-formed statement has for the arguments, less spaces *)
WhereClause(kwargs) ==
    IF kwargs = <<>> THEN <<>>
    ELSE <<"w", "h", "e", "r", "e">>
            \o Join([i \in 1..Len(kwargs) |-> <<kwargs[i][1], kwargs[i][2], "?">>],
                    <<"a", "n", "d">>)

FieldsClause(fields) ==
    IF fields = <<>> \/ fields = <<"*">> THEN <<"*">>
    ELSE Join(Names(fields), <<",">>)

ColsClause(word, cols) ==
    IF ~TruthyList(cols) THEN <<>>
    ELSE word \o <<"b", "y">> \o Join(Names(cols[1]), <<",">>)

(* C17: the where text has one 'column operator ?' term per filter, joined *)
(* by 'and', and is empty without filters; the bound values are the        *)
(* filters' values in the order of the mapping, as many as placeholders;   *)
(* fields, groups and orders that are empty or None give '*' and no        *)
(* clause; the statement is well formed and holds no filter value.         *)
C17_QueryBuilder ==
    qb.out # <<>> =>
        LET o == qb.out[1]
        IN  /\ Squeeze(o.where) = WhereClause(qb.kwargs)
            /\ qb.kwargs = <<>> => o.where = <<>>
            /\ Len(SelectSeq(o.sql, IsPlaceholder)) = Len(o.vals)
            /\ Len(o.vals) = Len(qb.kwargs)
            /\ \A i \in 1..Len(qb.kwargs) : o.vals[i] = Str(qb.kwargs[i][3])
            /\ \A j \in 1..Len(o.sql) : o.sql[j] \notin FilterVals
            /\ o.fields = FieldsClause(qb.fields)
            /\ Squeeze(o.groups) = ColsClause(<<"g", "r", "o", "u", "p">>, qb.groups)
            /\ Squeeze(o.orders) = ColsClause(<<"o", "r", "d", "e", "r">>, qb.orders)
            /\ Squeeze(o.sql) =
                <<"s", "e", "l", "e", "c", "t">> \o FieldsClause(qb.fields)
                    \o <<"f", "r", "o", "m", _tables[qb.cls]>>
                    \o WhereClause(qb.kwargs)
                    \o ColsClause(<<"g", "r", "o", "u", "p">>, qb.groups)
                    \o ColsClause(<<"o", "r", "d", "e", "r">>, qb.orders)
            /\ o.sql[Len(o.sql)] # ","
            /\ \A j \in 1..(Len(o.sql) - 1) :
                  o.sql[j] \in FilterCols => o.sql[j + 1] \notin FilterCols \cup {"a", "g", "o"}

(* a statement was built from two filters, no fields, None groups and an   *)
(* empty tuple of orders                                                   *)
C17_Witness ==
    /\ qb.out # <<>>
    /\ Len(qb.kwargs) = 2
    /\ qb.fields = <<>>
    /\ qb.groups = None
    /\ qb.orders = Some(<<>>)
    /\ Len(qb.out[1].vals) = 2
    /\ qb.out[1].groups = <<>> /\ qb.out[1].orders = <<>>

====
